---- MODULE Spec2Model ----
(***************************************************************************)
(* The rule engine of the falling-fruit merge game of                      *)
(* src/src/components/SuicaGame.tsx: the React state of the component, the *)
(* ball registry (ballsRef), the bodies of the Matter world, the pending   *)
(* cooldown timers and the handlers that change them.                      *)
(*                                                                         *)
(* Units: positions are pixels; velocities are hundredths of a pixel per   *)
(* step, so that the rest threshold 0.1 of checkGameOver is the integer 10.*)
(* Handlers run to completion (single-threaded event loop); React state    *)
(* set by a handler is committed before the next handler runs.             *)
(*                                                                         *)
(* Positions and velocities belong to the physics engine.  kin holds them  *)
(* for the bodies whose kinematics the program knows: what it gave a body  *)
(* it created, and what it read of a body in the current Engine.update.    *)
(* The integration of an update moves every body, so what was known before *)
(* it is out of date; a handler that reads body.position or body.velocity  *)
(* gets one of the outcomes the integration may have had (KinStates), the  *)
(* same one at every read in that update.  No handler reads a position     *)
(* between two updates.                                                    *)
(***************************************************************************)
EXTENDS Integers, Sequences, FiniteSets, TLC

VARIABLES
    score,          \* useState(0)
    gameOver,       \* useState(false)
    nextBallLevel,  \* useState(0)
    canDrop,        \* useState(true)
    dropPosition,   \* useState(400)
    gameMode,       \* useState('normal')
    gameStarted,    \* useState(false)
    engineRef,      \* "null" or "engine": whether engineRef.current is set
    world,          \* body id -> body, the bodies of engineRef.current.world
    kin,            \* body id -> known position and vertical velocity
    ballsRef,       \* body id -> Ball, the registry Map<number, Ball>
    nextId,         \* the id Matter gives to the next body it creates
    timers,         \* the pending setTimeout callbacks of dropBall
    pc,             \* "idle", or the event of the Engine.update under way
    pairs,          \* the pairs of event.pairs that forEach has yet to handle
    handled,        \* the pair forEach handled last in this event, or <<>>
    event           \* the event handled last: its handler and its argument

vars == <<score, gameOver, nextBallLevel, canDrop, dropPosition, gameMode,
          gameStarted, engineRef, world, kin, ballsRef, nextId, timers, pc,
          pairs, handled, event>>

----------------------------------------------------------------------------
(* Bounds of the model *)

\* the player stops dropping once Matter has handed out this many ids (the
\* boundary bodies of the model hold 1..3)
MaxId == 5

----------------------------------------------------------------------------
(* Constants of the program *)

\* radius of each tier, BALL_CONFIGS[level].radius
BALL_CONFIGS == <<25, 35, 45, 55, 65, 75, 85, 95, 110>>

NumTiers == Len(BALL_CONFIGS)

\* BALL_CONFIGS.length - 1, the terminal tier
MaxTier == NumTiers - 1

GameModes == {"normal", "moon"}

\* ball.position.y < 50
CEILING_Y == 50

\* ball.velocity.y < 0.1, in hundredths of a pixel per step
REST_VELOCITY == 10

\* createBall(dropPosition, 60, nextBallLevel)
SPAWN_Y == 60

\* Math.floor(Math.random() * 5)
DROP_LEVELS == 5

DroppableTierCeiling == DROP_LEVELS - 1

\* Math.max(40, Math.min(560, x))
MIN_X == 40

MAX_X == 560

\* useState(400)
INITIAL_DROP_POSITION == 400

\* (newLevel + 1) * 10
POINTS_PER_TIER == 10

Min(a, b) == IF a < b THEN a ELSE b

Max(a, b) == IF a > b THEN a ELSE b

Abs(n) == IF n < 0 THEN -n ELSE n

\* RandomLevels drawn over all tiers: Math.random() * BALL_CONFIGS.length
RandomAnyTier == 0 .. MaxTier

\* the values Math.floor(Math.random() * 5) can take
RandomLevels == 0 .. (DROP_LEVELS - 1)

\* dropDelay = gameMode === 'moon' ? 800 : 500
DropDelay(mode) == IF mode = "moon" THEN 800 ELSE 500

\* restitution, friction, density of createBall, times 10000
Material(mode) ==
    IF mode = "moon"
    THEN [restitution |-> 7000, friction |-> 500, density |-> 5]
    ELSE [restitution |-> 3000, friction |-> 1000, density |-> 10]

----------------------------------------------------------------------------
(* Bodies *)

\* label: `ball-${level}`, kept as its prefix and the number after it
BallLabel(level) == [prefix |-> "ball-", n |-> level]

\* the default label of Matter.Bodies.rectangle
StaticLabel == [prefix |-> "Rectangle Body", n |-> 0]

\* body.label.startsWith('ball-')
IsBallLabel(label) == label.prefix = "ball-"

\* ground, leftWall, rightWall. Matter gives every body a fresh id; the three
\* boundary bodies of each engine are named 1, 2, 3 here, since no handler
\* looks a boundary body up by its id and only one engine is live at a time.
GROUND == 1

LEFT_WALL == 2

RIGHT_WALL == 3

StaticIds == {GROUND, LEFT_WALL, RIGHT_WALL}

\* Matter.Bodies.rectangle(x, y, width, height, {isStatic: true})
StaticBody(x, y, width, height) ==
    [label |-> StaticLabel, isStatic |-> TRUE,
     x |-> x, y |-> y, width |-> width, height |-> height]

\* Matter.World.add(engine.world, [ground, leftWall, rightWall])
Boundary ==
    [i \in StaticIds |->
        IF i = GROUND THEN StaticBody(300, 490, 600, 20)
        ELSE IF i = LEFT_WALL THEN StaticBody(10, 250, 20, 500)
        ELSE StaticBody(590, 250, 20, 500)]

\* createBall: the body of the Ball it returns
CreateBall(level, mode) ==
    [label |-> BallLabel(level), isStatic |-> FALSE, material |-> Material(mode)]

\* Matter.Bodies.circle(x, y, ...): a new body is where it is put, at rest
Placed(x, y) == [x |-> x, y |-> y, vy |-> 0]

\* bodies.filter(body => body.label.startsWith('ball-'))
GameBalls(w) == {i \in DOMAIN w : IsBallLabel(w[i].label)}

\* WorldRemove that removes nothing: the bodies stay in the world
WorldRemoveNothing(w, ids) == w

\* Matter.World.remove(world, bodies)
WorldRemove(w, ids) == [i \in DOMAIN w \ ids |-> w[i]]

\* Matter.World.add(world, body); ballsRef.current.set(id, ball)
Put(f, id, v) == [i \in DOMAIN f \cup {id} |-> IF i = id THEN v ELSE f[i]]

\* MapDelete that deletes nothing: the registry keeps the consumed ball
MapDeleteNothing(f, id) == f

\* ballsRef.current.delete(id)
MapDelete(f, id) == [i \in DOMAIN f \ {id} |-> f[i]]

EmptyMap == [i \in {} |-> 0]

\* MapClear that clears nothing: the registry keeps the balls of the session
MapClearNothing(f) == f

\* ballsRef.current.clear()
MapClear(f) == EmptyMap

----------------------------------------------------------------------------
(* The physics collaborator: what one Engine.update may report *)

\* positions and vertical velocities the integration may leave a ball with:
\* at rest above the ceiling line, moving up fast above it, falling fast
\* above it, at rest low in the field
KinStates ==
    { [x |-> 200, y |-> 40,  vy |-> 0],
      [x |-> 300, y |-> 40,  vy |-> -500],
      [x |-> 300, y |-> 40,  vy |-> 500],
      [x |-> 400, y |-> 400, vy |-> 0] }

\* body.position and body.velocity as a handler reads them: what is known of
\* the body, or else any outcome of the integration
ReadBody(k, i) == IF i \in DOMAIN k THEN {k[i]} ELSE KinStates

\* the reading of all bodies in ids at once
ReadBodies(k, ids) ==
    { [i \in DOMAIN k \cup ids |-> IF i \in DOMAIN k THEN k[i] ELSE sample[i]] :
        sample \in [ids \ DOMAIN k -> KinStates] }

\* what a pair of the collisionStart event holds of a body: the body object
\* outlives its removal from the world, so its id and label stay readable
BodyOf(w, i) == [id |-> i, label |-> w[i].label]

\* the body ids of the pairs that can be newly in contact: two balls, or the
\* ground and the oldest ball
CandidateIds(w) ==
    { ab \in (GameBalls(w) \cup {GROUND}) \X GameBalls(w) :
        /\ ab[1] < ab[2]
        /\ ab[1] = GROUND => \A d \in GameBalls(w) : ab[2] <= d }

CandidatePairs(w) ==
    { <<BodyOf(w, ab[1]), BodyOf(w, ab[2])>> : ab \in CandidateIds(w) }

\* event.pairs: each pair at most once. Matter lists them in an order the
\* program does not control, so the model keeps the pairs still to be handled
\* and lets forEach take any of them next.
Batches(w) == SUBSET CandidatePairs(w)

----------------------------------------------------------------------------
(* The handlers, as functions of the state they read and write *)

\* NoMerge with the bound one too high: BALL_CONFIGS.length for length - 1
NoMergeOffByOne(ballA, ballB) ==
    ballA.level # ballB.level \/ ballA.level >= NumTiers

\* NoMerge without the test of the terminal tier
NoMergeWithoutTerminalTest(ballA, ballB) == ballA.level # ballB.level

\* mergeBalls line 70: the pair does not merge
NoMerge(ballA, ballB) ==
    ballA.level # ballB.level \/ ballA.level >= NumTiers - 1

\* MidPoint without the parentheses: a + b / 2
MidPointUnparenthesised(bodyA, bodyB) ==
    [x |-> bodyA.x + bodyB.x \div 2, y |-> bodyA.y + bodyB.y \div 2]

\* midX, midY: (a + b) / 2. Colliding balls have the even coordinates of
\* KinStates, so the division is exact.
MidPoint(bodyA, bodyB) ==
    [x |-> (bodyA.x + bodyB.x) \div 2, y |-> (bodyA.y + bodyB.y) \div 2]

\* points = (newLevel + 1) * 10
Points(newLevel) == (newLevel + 1) * POINTS_PER_TIER

\* AddScore that overwrites the score: setScore(points)
AddScoreOverwrite(prev, points) == points

\* setScore(prev => prev + points)
AddScore(prev, points) == prev + points

\* mergeBalls, on st = [world, kin, ballsRef, nextId, score]; posA and posB
\* are what ballA.body.position and ballB.body.position read
MergeBalls(st, ballA, ballB, mode, posA, posB) ==
    IF NoMerge(ballA, ballB) THEN st
    ELSE
        LET mid == MidPoint(posA, posB)
            removed == WorldRemove(st.world, {ballA.body, ballB.body})
            deleted == MapDelete(MapDelete(st.ballsRef, ballA.body), ballB.body)
            newLevel == ballA.level + 1
            newBall == [body |-> st.nextId, level |-> newLevel]
        IN  [world    |-> Put(removed, st.nextId, CreateBall(newLevel, mode)),
             kin      |-> Put(Put(Put(st.kin, ballA.body, posA), ballB.body, posB),
                              st.nextId, Placed(mid.x, mid.y)),
             ballsRef |-> Put(deleted, st.nextId, newBall),
             nextId   |-> st.nextId + 1,
             score    |-> AddScore(st.score, Points(newLevel))]

\* ballA && ballB && ballA.level === ballB.level, after ballsRef.current.get
Registered(reg, pair) ==
    /\ pair[1].id \in DOMAIN reg
    /\ pair[2].id \in DOMAIN reg

\* the body of event.pairs.forEach in the collisionStart handler
HandlePair(st, pair, mode, posA, posB) ==
    IF IsBallLabel(pair[1].label) /\ IsBallLabel(pair[2].label)
    THEN IF /\ Registered(st.ballsRef, pair)
            /\ st.ballsRef[pair[1].id].level = st.ballsRef[pair[2].id].level
         THEN MergeBalls(st, st.ballsRef[pair[1].id], st.ballsRef[pair[2].id],
                         mode, posA, posB)
         ELSE st
    ELSE st

\* the condition of checkGameOver for one ball
Offends(k) == k.y < CEILING_Y /\ k.vy < REST_VELOCITY

\* checkGameOver: its return value
CheckGameOver(w, k) == \E i \in GameBalls(w) : Offends(k[i])

\* SetGameOver that follows the scan: setGameOver(found)
SetGameOverToScan(prev, found) == found

\* setGameOver(true) when checkGameOver finds an offender
SetGameOver(prev, found) == IF found THEN TRUE ELSE prev

\* handleMouseMove: Math.max(40, Math.min(560, x))
Clamp(x) == Max(MIN_X, Min(MAX_X, x))

\* DropRejected without the test of gameOver
DropRejectedIgnoringGameOver(cd, over, eng) == ~cd \/ eng = "null"

\* if (!canDrop || gameOver || !engineRef.current) return
DropRejected(cd, over, eng) == ~cd \/ over \/ eng = "null"

----------------------------------------------------------------------------
(* The state after construction: the mode-selection screen *)

\* what the model remembers of the last event: the handler that ran and, for
\* startGame, the mode chosen; for dropBall, whether the ball was dropped
Event(name, arg) == [name |-> name, arg |-> arg]

Init ==
    /\ score = 0
    /\ gameOver = FALSE
    /\ nextBallLevel = 0
    /\ canDrop = TRUE
    /\ dropPosition = INITIAL_DROP_POSITION
    /\ gameMode = "normal"
    /\ gameStarted = FALSE
    /\ engineRef = "null"
    /\ world = EmptyMap
    /\ kin = EmptyMap
    /\ ballsRef = EmptyMap
    /\ nextId = Cardinality(StaticIds) + 1
    /\ timers = <<>>
    /\ pc = "idle"
    /\ pairs = {}
    /\ handled = <<>>
    /\ event = Event("mount", "")

\* pointer positions relative to the canvas, e.clientX - rect.left
PointerXs == {0, 600}

RemoveAt(seq, i) == [j \in 1 .. Len(seq) - 1 |-> IF j < i THEN seq[j] ELSE seq[j + 1]]

\* the session of the specification: the screen the component renders
Session ==
    IF ~gameStarted THEN "ModeSelect"
    ELSE IF gameOver THEN "GameOver" ELSE "Playing"

----------------------------------------------------------------------------
(* The handlers as actions *)

\* StartGame without setNextBallLevel(0)
StartGameKeepingPendingTier(mode) ==
    /\ pc = "idle"
    /\ ~gameStarted
    /\ gameMode' = mode
    /\ gameStarted' = TRUE
    /\ score' = 0
    /\ gameOver' = FALSE
    /\ canDrop' = TRUE
    /\ engineRef' = "engine"
    /\ world' = Boundary
    /\ kin' = EmptyMap
    /\ event' = Event("startGame", mode)
    /\ UNCHANGED <<nextBallLevel, dropPosition, ballsRef, nextId, timers, pc,
                   pairs, handled>>

\* startGame(mode), a button of the mode-selection screen, followed by the
\* effect that the change of gameStarted runs: a new engine whose world holds
\* the three boundary bodies, and a running Runner
StartGame(mode) ==
    /\ pc = "idle"
    /\ ~gameStarted
    /\ gameMode' = mode
    /\ gameStarted' = TRUE
    /\ score' = 0
    /\ gameOver' = FALSE
    /\ canDrop' = TRUE
    /\ nextBallLevel' = 0
    /\ engineRef' = "engine"
    /\ world' = Boundary
    /\ kin' = EmptyMap
    /\ event' = Event("startGame", mode)
    /\ UNCHANGED <<dropPosition, ballsRef, nextId, timers, pc, pairs, handled>>

\* ResetGame without setGameStarted(false)
ResetGameKeepingStarted ==
    /\ pc = "idle"
    /\ gameStarted
    /\ world' = WorldRemove(world, GameBalls(world))
    /\ kin' = WorldRemove(kin, GameBalls(world))
    /\ ballsRef' = MapClear(ballsRef)
    /\ score' = 0
    /\ gameOver' = FALSE
    /\ canDrop' = TRUE
    /\ nextBallLevel' = 0
    /\ timers' = [j \in 1 .. Len(timers) |-> [timers[j] EXCEPT !.stale = TRUE]]
    /\ event' = Event("resetGame", "")
    /\ UNCHANGED <<dropPosition, gameMode, gameStarted, engineRef, nextId, pc,
                   pairs, handled>>

\* resetGame, the reset button and the button of the game-over overlay,
\* followed by the cleanup of the effect, which stops the Runner. The timers
\* of dropBall are not cleared; they are marked as belonging to a session
\* that is over.
ResetGame ==
    /\ pc = "idle"
    /\ gameStarted
    /\ IF engineRef # "null"
       THEN /\ world' = WorldRemove(world, GameBalls(world))
            /\ kin' = WorldRemove(kin, GameBalls(world))
            /\ ballsRef' = MapClear(ballsRef)
       ELSE UNCHANGED <<world, kin, ballsRef>>
    /\ score' = 0
    /\ gameOver' = FALSE
    /\ canDrop' = TRUE
    /\ nextBallLevel' = 0
    /\ gameStarted' = FALSE
    /\ timers' = [j \in 1 .. Len(timers) |-> [timers[j] EXCEPT !.stale = TRUE]]
    /\ event' = Event("resetGame", "")
    /\ UNCHANGED <<dropPosition, gameMode, engineRef, nextId, pc, pairs, handled>>

\* handleMouseMove on the canvas container
HandleMouseMove(x) ==
    /\ pc = "idle"
    /\ gameStarted
    /\ dropPosition' = Clamp(x)
    /\ event' = Event("mouseMove", "")
    /\ UNCHANGED <<score, gameOver, nextBallLevel, canDrop, gameMode,
                   gameStarted, engineRef, world, kin, ballsRef, nextId,
                   timers, pc, pairs, handled>>

\* dropBall, a click on the canvas container
DropBall ==
    /\ pc = "idle"
    /\ gameStarted
    /\ IF DropRejected(canDrop, gameOver, engineRef)
       THEN /\ event' = Event("dropBall", "Rejected")
            /\ UNCHANGED <<world, kin, ballsRef, nextId, canDrop, timers>>
       ELSE \* the bound: the player clicks only while ids are left
            /\ nextId <= MaxId
            /\ world' = Put(world, nextId, CreateBall(nextBallLevel, gameMode))
            /\ kin' = Put(kin, nextId, Placed(dropPosition, SPAWN_Y))
            /\ ballsRef' = Put(ballsRef, nextId,
                               [body |-> nextId, level |-> nextBallLevel])
            /\ nextId' = nextId + 1
            /\ canDrop' = FALSE
            /\ timers' = Append(timers, [delay |-> DropDelay(gameMode), stale |-> FALSE])
            /\ event' = Event("dropBall", "Dropped")
    /\ UNCHANGED <<score, gameOver, nextBallLevel, dropPosition, gameMode,
                   gameStarted, engineRef, pc, pairs, handled>>

\* CooldownTimer without setCanDrop(true)
CooldownTimerKeepingGate(i) ==
    /\ pc = "idle"
    /\ i \in 1 .. Len(timers)
    /\ nextBallLevel' \in RandomLevels
    /\ timers' = RemoveAt(timers, i)
    /\ event' = Event("timeout", "")
    /\ UNCHANGED <<score, gameOver, canDrop, dropPosition, gameMode,
                   gameStarted, engineRef, world, kin, ballsRef, nextId, pc,
                   pairs, handled>>

\* the callback of the setTimeout of dropBall
CooldownTimer(i) ==
    /\ pc = "idle"
    /\ i \in 1 .. Len(timers)
    /\ canDrop' = TRUE
    /\ nextBallLevel' \in RandomLevels
    /\ timers' = RemoveAt(timers, i)
    /\ event' = Event("timeout", "")
    /\ UNCHANGED <<score, gameOver, dropPosition, gameMode, gameStarted,
                   engineRef, world, kin, ballsRef, nextId, pc, pairs, handled>>

\* Engine.update of the Runner, up to the collisionStart event: the bodies
\* are integrated and the pairs newly in contact are collected
EngineUpdate ==
    /\ pc = "idle"
    /\ gameStarted
    /\ kin' = EmptyMap
    /\ pairs' \in Batches(world)
    /\ pc' = "collisionStart"
    /\ handled' = <<>>
    /\ event' = Event("update", "")
    /\ UNCHANGED <<score, gameOver, nextBallLevel, canDrop, dropPosition,
                   gameMode, gameStarted, engineRef, world, ballsRef, nextId,
                   timers>>

\* one iteration of event.pairs.forEach in the collisionStart handler
CollisionStart ==
    /\ pc = "collisionStart"
    /\ \E p \in pairs :
       \E posA \in ReadBody(kin, p[1].id), posB \in ReadBody(kin, p[2].id) :
         LET st == [world |-> world, kin |-> kin, ballsRef |-> ballsRef,
                    nextId |-> nextId, score |-> score]
             r == HandlePair(st, p, gameMode, posA, posB)
         IN  /\ world' = r.world
             /\ kin' = r.kin
             /\ ballsRef' = r.ballsRef
             /\ nextId' = r.nextId
             /\ score' = r.score
             /\ pairs' = pairs \ {p}
             /\ handled' = p
    /\ UNCHANGED <<gameOver, nextBallLevel, canDrop, dropPosition, gameMode,
                   gameStarted, engineRef, timers, pc, event>>

\* the afterUpdate event, first half: checkGameOver collects the balls of
\* the world, whose positions and velocities its loop reads
AllBodies ==
    /\ pc = "collisionStart"
    /\ pairs = {}
    /\ kin' \in ReadBodies(kin, GameBalls(world))
    /\ pc' = "afterUpdate"
    /\ handled' = <<>>
    /\ UNCHANGED <<score, gameOver, nextBallLevel, canDrop, dropPosition,
                   gameMode, gameStarted, engineRef, world, ballsRef, nextId,
                   timers, pairs, event>>

\* the afterUpdate event, second half: the loop of checkGameOver; the
\* Engine.update ends
AfterUpdate ==
    /\ pc = "afterUpdate"
    /\ gameOver' = SetGameOver(gameOver, CheckGameOver(world, kin))
    /\ kin' = EmptyMap
    /\ pc' = "idle"
    /\ UNCHANGED <<score, nextBallLevel, canDrop, dropPosition, gameMode,
                   gameStarted, engineRef, world, ballsRef, nextId, timers,
                   pairs, handled, event>>

Next ==
    \/ \E mode \in GameModes : StartGame(mode)
    \/ ResetGame
    \/ \E x \in PointerXs : HandleMouseMove(x)
    \/ DropBall
    \/ \E i \in 1 .. Len(timers) : CooldownTimer(i)
    \/ EngineUpdate
    \/ CollisionStart
    \/ AllBodies
    \/ AfterUpdate

Spec == Init /\ [][Next]_vars

\* the event loop runs every timer callback that is due, and an Engine.update
\* that has begun runs to its end
SpecFair ==
    /\ Spec
    /\ SF_vars(\E i \in 1 .. Len(timers) : CooldownTimer(i))
    /\ WF_vars(CollisionStart)
    /\ WF_vars(AllBodies)
    /\ WF_vars(AfterUpdate)

----------------------------------------------------------------------------
(* A game under way: three balls in the field, two of them of one tier *)

RECURSIVE BuildScore(_)
\* the score of the merges that build one ball of the tier out of tier-0
\* balls: setScore(prev => prev + points) at every merge
BuildScore(level) ==
    IF level = 0 THEN 0
    ELSE AddScore(2 * BuildScore(level - 1), Points(level))

\* the ids of the three balls. The handlers compare ids only for equality,
\* so the ids Matter gave them in the course of the game are renamed to the
\* first three after the boundary bodies.
MidGameIds == {4, 5, 6}

MidGameLevel(i, same, other) == IF i = 6 THEN other ELSE same

\* a Playing session in normal mode after drops and merges: the cooldown of
\* the last drop has fired, no update is under way
MidGame ==
    \E same \in 0 .. MaxTier : \E other \in {0, same, MaxTier} :
        /\ score = 2 * BuildScore(same) + BuildScore(other)
        /\ gameOver = FALSE
        /\ nextBallLevel = 0
        /\ canDrop = TRUE
        /\ dropPosition = INITIAL_DROP_POSITION
        /\ gameMode = "normal"
        /\ gameStarted = TRUE
        /\ engineRef = "engine"
        /\ world = [i \in StaticIds \cup MidGameIds |->
                      IF i \in StaticIds THEN Boundary[i]
                      ELSE CreateBall(MidGameLevel(i, same, other), "normal")]
        /\ kin = EmptyMap
        /\ ballsRef = [i \in MidGameIds |->
                         [body |-> i, level |-> MidGameLevel(i, same, other)]]
        /\ nextId = 7
        /\ timers = <<>>
        /\ pc = "idle"
        /\ pairs = {}
        /\ handled = <<>>
        /\ event = Event("timeout", "")

InitMidGame == Init \/ MidGame

SpecMidGame == InitMidGame /\ [][Next]_vars

----------------------------------------------------------------------------
(* Properties of the merge resolution *)

\* a step of forEach: the collisionStart handler has handled the pair handled'
PairStep == pc = "collisionStart" /\ pc' = "collisionStart" /\ handled' # <<>>

\* both balls of the pair are in the registry
BothRegistered(p) == p[1].id \in DOMAIN ballsRef /\ p[2].id \in DOMAIN ballsRef

\* C1: when the handler resolves a pair of two registered balls of one tier t
\* below the terminal tier, both leave the registry and the world, exactly
\* one ball of tier t+1 is created at the midpoint of their positions and
\* registered, the registry shrinks by one, and the score grows by (t+2)*10.
MergeYieldsNextTier ==
    [][ (/\ PairStep
         /\ BothRegistered(handled')
         /\ ballsRef[handled'[1].id].level = ballsRef[handled'[2].id].level
         /\ ballsRef[handled'[1].id].level < MaxTier)
        =>
        LET a == handled'[1].id
            b == handled'[2].id
            t == ballsRef[a].level
            new == DOMAIN ballsRef' \ DOMAIN ballsRef
        IN  /\ Cardinality(new) = 1
            /\ DOMAIN ballsRef' = (DOMAIN ballsRef \ {a, b}) \cup new
            /\ DOMAIN world' = (DOMAIN world \ {a, b}) \cup new
            /\ \A i \in DOMAIN ballsRef \ {a, b} :
                  ballsRef'[i] = ballsRef[i] /\ world'[i] = world[i]
            /\ \A n \in new :
                  /\ ballsRef'[n] = [body |-> n, level |-> t + 1]
                  /\ world'[n].label = BallLabel(t + 1)
                  /\ 2 * kin'[n].x = kin'[a].x + kin'[b].x
                  /\ 2 * kin'[n].y = kin'[a].y + kin'[b].y
            /\ Cardinality(DOMAIN ballsRef') = Cardinality(DOMAIN ballsRef) - 1
            /\ score' = score + (t + 2) * 10
      ]_vars

\* two balls of the tier below the terminal one, at different positions,
\* have just merged into a ball of the terminal tier
MergedIntoTerminal ==
    /\ pc = "collisionStart"
    /\ handled # <<>>
    /\ handled[1].id \in DOMAIN kin \ DOMAIN world
    /\ handled[2].id \in DOMAIN kin \ DOMAIN world
    /\ kin[handled[1].id].x # kin[handled[2].id].x
    /\ kin[handled[1].id].y # kin[handled[2].id].y
    /\ \E n \in DOMAIN ballsRef :
          /\ ballsRef[n].level = MaxTier
          /\ n \in DOMAIN kin
    /\ Cardinality(DOMAIN ballsRef) = 2


\* C2: within one collisionStart event, a pair that refers to a ball which a
\* merge earlier in the event has removed from the world is ignored: the
\* registry, the world and the score stay as they are, so that no ball takes
\* part in two merges.
ConsumedPairIgnored ==
    [][ (/\ PairStep
         /\ IsBallLabel(handled'[1].label)
         /\ IsBallLabel(handled'[2].label)
         /\ \/ handled'[1].id \notin DOMAIN world
            \/ handled'[2].id \notin DOMAIN world)
        => UNCHANGED <<ballsRef, world, score, nextId>>
      ]_vars

\* of three balls of one tier, two have merged, and the handler has then
\* handled a pair of a consumed ball and the third ball, which survives
\* beside the merged ball of the next tier
StalePairHandled ==
    /\ pc = "collisionStart"
    /\ handled # <<>>
    /\ handled[1].id \notin DOMAIN world
    /\ handled[2].id \in DOMAIN ballsRef
    /\ IsBallLabel(handled[1].label)
    /\ handled[1].label = handled[2].label
    /\ Cardinality(DOMAIN ballsRef) = 2
    /\ \E n \in DOMAIN ballsRef :
          ballsRef[n].level = ballsRef[handled[2].id].level + 1

\* C3: resolving a pair of two registered balls of different tiers, or of
\* two balls of the terminal tier, changes neither the registry nor the
\* bodies of the world nor the score.
NoMergeLeavesAll ==
    [][ (/\ PairStep
         /\ BothRegistered(handled')
         /\ \/ ballsRef[handled'[1].id].level # ballsRef[handled'[2].id].level
            \/ ballsRef[handled'[1].id].level = MaxTier)
        => UNCHANGED <<ballsRef, world, score, nextId>>
      ]_vars

\* the handler has handled a pair of two balls of the terminal tier, and
\* both are still registered
TerminalPairHandled ==
    /\ pc = "collisionStart"
    /\ handled # <<>>
    /\ handled[1].id \in DOMAIN ballsRef
    /\ handled[2].id \in DOMAIN ballsRef
    /\ ballsRef[handled[1].id].level = MaxTier
    /\ ballsRef[handled[2].id].level = MaxTier


----------------------------------------------------------------------------
(* Properties of the game-over monitor *)

\* C4: on a tick the monitor reports game over if and only if some ball is
\* above the ceiling line and the magnitude of its vertical velocity is
\* below the rest threshold; a ball above the line that moves fast, upward
\* or downward, does not end the game.
GameOverIffRestingAboveCeiling ==
    [][ (pc = "afterUpdate" /\ ~gameOver)
        => (gameOver' <=> \E i \in GameBalls(world) :
                             /\ kin[i].y < CEILING_Y
                             /\ Abs(kin[i].vy) < REST_VELOCITY)
      ]_vars

\* C5: once a tick has set gameOver, it stays set through every tick,
\* collision, drop request and cooldown timer; only resetGame clears it.
GameOverLatched ==
    [][ gameOver => (gameOver' \/ event'.name = "resetGame") ]_vars

\* the game is over, the cooldown of the last drop has fired since, and a
\* drop request has just been turned down
GameOverAfterDropRequest ==
    /\ gameOver
    /\ canDrop
    /\ timers = <<>>
    /\ event = Event("dropBall", "Rejected")

----------------------------------------------------------------------------
(* Properties of the drop controller and of the session *)

\* C6: a drop request made while canDrop is false or while the game is over
\* is turned down and changes nothing: no ball is added to the registry or
\* the world, the score, canDrop and the pending tier stay, and no cooldown
\* timer is scheduled.
RejectedDropChangesNothing ==
    [][ (event'.name = "dropBall" /\ (~canDrop \/ gameOver))
        => /\ event'.arg = "Rejected"
           /\ UNCHANGED <<ballsRef, world, kin, nextId, score, canDrop,
                          nextBallLevel, timers, gameOver>>
      ]_vars

\* a drop request has been turned down during the cooldown of a drop
DropRejectedInCooldown ==
    /\ event = Event("dropBall", "Rejected")
    /\ ~canDrop
    /\ ~gameOver
    /\ Len(timers) = 1

\* C7: right after resetGame the registry is empty, the world holds the
\* boundary bodies and no ball, the score is 0, gameOver is false, canDrop is
\* true, the pending tier is 0 and the session is ModeSelect.
ResetClearsSession ==
    event.name = "resetGame" =>
        /\ ballsRef = EmptyMap
        /\ GameBalls(world) = {}
        /\ world = Boundary
        /\ score = 0
        /\ ~gameOver
        /\ canDrop
        /\ nextBallLevel = 0
        /\ Session = "ModeSelect"

\* resetGame has just run on a session in which balls were created and the
\* cooldown of a drop is still pending
ResetDuringCooldown ==
    /\ event.name = "resetGame"
    /\ nextId > Cardinality(StaticIds) + 1
    /\ timers # <<>>

\* C8: right after startGame(mode) the session is Playing with score 0, an
\* empty registry, canDrop true, pending tier 0, gameOver false, and the mode
\* chosen is the game mode.
StartGameStartsClean ==
    event.name = "startGame" =>
        /\ Session = "Playing"
        /\ score = 0
        /\ ballsRef = EmptyMap
        /\ canDrop
        /\ nextBallLevel = 0
        /\ ~gameOver
        /\ gameMode = event.arg

\* a second session has just been started, in moon mode, after a session in
\* which a ball was dropped
SecondSessionStarted ==
    /\ event = Event("startGame", "moon")
    /\ nextId > Cardinality(StaticIds) + 1
    /\ engineRef = "engine"

\* C9: the score is a natural number in every state; between two states of
\* one Playing session it never decreases, and only a merge, which takes one
\* ball off the registry, changes it; it is 0 when a session starts.
ScoreMonotone ==
    /\ [](score \in Nat)
    /\ [][ /\ (Session = "Playing" /\ Session' = "Playing") =>
                /\ score' >= score
                /\ score' # score =>
                      /\ PairStep
                      /\ Cardinality(DOMAIN ballsRef')
                            = Cardinality(DOMAIN ballsRef) - 1
           /\ event'.name = "startGame" => score' = 0
         ]_vars

\* in a Playing session whose score was not 0, a merge has just raised it
ScoreRaisedByMerge ==
    /\ Session = "Playing"
    /\ pc = "collisionStart"
    /\ handled # <<>>
    /\ handled[1].id \notin DOMAIN world
    /\ handled[2].id \notin DOMAIN world
    /\ \E n \in DOMAIN ballsRef : score > Points(ballsRef[n].level)

\* C10: the pending tier is always in 0 .. droppableTierCeiling, which is 4
\* and below the terminal tier 8, so that every ball a drop creates has a
\* tier of at most droppableTierCeiling.
PendingTierDroppable ==
    /\ nextBallLevel \in 0 .. DroppableTierCeiling
    /\ DroppableTierCeiling = 4
    /\ MaxTier = 8
    /\ DroppableTierCeiling < MaxTier
    /\ event = Event("dropBall", "Dropped") =>
          /\ nextId - 1 \in DOMAIN ballsRef
          /\ ballsRef[nextId - 1].level \in 0 .. DroppableTierCeiling

\* a ball of the highest droppable tier has just been dropped
DroppedCeilingTier ==
    /\ event = Event("dropBall", "Dropped")
    /\ ballsRef[nextId - 1].level = DroppableTierCeiling

----------------------------------------------------------------------------
(* Invariants of the registry *)

\* C11: every registered ball has a tier in 0 .. MaxTier, a valid index of
\* BALL_CONFIGS, and so has the label of every ball of the world: no drop
\* and no merge creates a ball above the terminal tier.
TierInRange ==
    /\ \A i \in DOMAIN ballsRef : ballsRef[i].level \in 0 .. MaxTier
    /\ \A i \in GameBalls(world) : world[i].label.n \in 0 .. MaxTier

\* a ball of the terminal tier that a merge created has met another ball of
\* the terminal tier, and both are still registered
MergedTerminalMeetsTerminal ==
    /\ pc = "collisionStart"
    /\ handled # <<>>
    /\ BothRegistered(handled)
    /\ ballsRef[handled[1].id].level = MaxTier
    /\ ballsRef[handled[2].id].level = MaxTier
    /\ handled[2].id \notin MidGameIds

\* C12: the ids of the registry are the ids of the ball-labelled bodies of
\* the world, the tier of each registered ball is the tier in the label of
\* its body, and no boundary body is registered.
RegistryMatchesWorld ==
    /\ DOMAIN ballsRef = GameBalls(world)
    /\ \A i \in DOMAIN ballsRef :
          /\ ballsRef[i].body = i
          /\ world[i].label = BallLabel(ballsRef[i].level)
    /\ DOMAIN ballsRef \cap StaticIds = {}
    /\ \A i \in StaticIds \cap DOMAIN world : ~IsBallLabel(world[i].label)

\* an update has ended in which two of three balls merged: the registry
\* holds the merged ball and the ball that was left
RegistryAfterMerge ==
    /\ pc = "idle"
    /\ event.name = "update"
    /\ Cardinality(DOMAIN ballsRef) = 2
    /\ \E n \in DOMAIN ballsRef : n \notin MidGameIds /\ n \in GameBalls(world)

----------------------------------------------------------------------------
(* Properties of the cooldown timers *)

\* C13: at most one cooldown timer is pending at any time, also after
\* resetGame and startGame while the timer of an earlier drop is pending.
OneTimerPending == Len(timers) <= 1

\* the callback of a timer of a session that resetGame has ended runs
StaleTimerStep ==
    /\ event'.name = "timeout"
    /\ \E i \in 1 .. Len(timers) : timers[i].stale /\ timers' = RemoveAt(timers, i)

\* C14: a cooldown timer of a session that resetGame has ended changes
\* neither canDrop nor the pending tier when it fires.
StaleTimerIsNoOp ==
    [][ StaleTimerStep => UNCHANGED <<canDrop, nextBallLevel>> ]_vars

\* a step of dropBall that drops a ball
DropStep == event'.name = "dropBall" /\ event'.arg = "Dropped" /\ nextId' # nextId

\* a step of the callback of a cooldown timer
TimerStep == event'.name = "timeout" /\ Len(timers') < Len(timers)

\* C15: an accepted drop registers exactly one new ball, of the pending tier
\* of the request, and sets canDrop to false in the same step; the timer
\* callback sets canDrop and redraws the pending tier in
\* 0 .. DroppableTierCeiling; and whenever canDrop is false it is eventually
\* true again.
DropThenReenabled ==
    /\ [][ DropStep =>
             /\ canDrop /\ Session = "Playing"
             /\ DOMAIN ballsRef' = DOMAIN ballsRef \cup {nextId}
             /\ nextId \notin DOMAIN ballsRef
             /\ ballsRef'[nextId].level = nextBallLevel
             /\ \A i \in DOMAIN ballsRef : ballsRef'[i] = ballsRef[i]
             /\ ~canDrop'
             /\ nextBallLevel' = nextBallLevel
             /\ Len(timers') = Len(timers) + 1 ]_vars
    /\ [][ TimerStep =>
             canDrop' /\ nextBallLevel' \in 0 .. DroppableTierCeiling ]_vars
    /\ (~canDrop ~> canDrop)

\* in a Playing session a ball was dropped, its cooldown has fired and has
\* drawn the highest droppable tier, and a drop can be made again
ReenabledAfterDrop ==
    /\ Session = "Playing"
    /\ event.name = "timeout"
    /\ DOMAIN ballsRef # {}
    /\ timers = <<>>
    /\ canDrop
    /\ nextBallLevel = DroppableTierCeiling

----------------------------------------------------------------------------
(* A ball alone in the field.  With no other ball to push it, a ball that  *)
(* is released at rest only falls (engine.gravity.y is positive), meets    *)
(* the ground, rebounds lower than it fell from (restitution below 1) and  *)
(* comes to rest on the ground: it is never above the height of its        *)
(* release.  kin is kept from one update to the next here.                 *)

\* the top face of the ground: Matter.Bodies.rectangle(300, 490, 600, 20)
GroundTop(w) == w[GROUND].y - w[GROUND].height \div 2

\* the vertical velocity a ball at rest gains in one step of 1000/60 ms, in
\* hundredths of a pixel: gravity.y * gravity.scale (0.001) * delta^2, with
\* engine.gravity.y = gameMode === 'moon' ? 0.1 : 0.6
GravityStep(mode) == IF mode = "moon" THEN 3 ELSE 17

\* where one update may leave a ball that was released at (x, releaseY) and
\* comes to rest at restY: just released, falling, rebounding, at rest
LoneBallStates(x, releaseY, restY, mode) ==
    { [x |-> x, y |-> releaseY, vy |-> GravityStep(mode)],
      [x |-> x, y |-> (releaseY + restY) \div 2, vy |-> 500],
      [x |-> x, y |-> restY - 10, vy |-> -100],
      [x |-> x, y |-> restY, vy |-> 0] }

\* one integration of a lone ball: the step after its release moves it by
\* less than a pixel and gives it the velocity of one step of gravity
LoneIntegrate(k, releaseY, restY, mode) ==
    IF k = Placed(k.x, releaseY)
    THEN {[x |-> k.x, y |-> releaseY, vy |-> GravityStep(mode)]}
    ELSE LoneBallStates(k.x, releaseY, restY, mode)

\* the kinematics of the world after one update, with at most one ball in it
LoneKin(w, k, reg, radii, releaseY, mode) ==
    IF GameBalls(w) = {} THEN {EmptyMap}
    ELSE LET i == CHOOSE j \in GameBalls(w) : TRUE
             restY == GroundTop(w) - radii[reg[i].level + 1]
         IN  { [j \in {i} |-> k2] : k2 \in LoneIntegrate(k[i], releaseY, restY, mode) }

\* dropBall while the field is empty, or turned down
DropFirstBall ==
    /\ DropRejected(canDrop, gameOver, engineRef) \/ GameBalls(world) = {}
    /\ DropBall

\* one Engine.update with at most one ball in the world: the integration, a
\* collisionStart event whose pairs have a boundary body (no handler acts on
\* them), and the afterUpdate event with checkGameOver
LoneUpdate ==
    /\ pc = "idle"
    /\ gameStarted
    /\ Cardinality(GameBalls(world)) <= 1
    /\ \E k2 \in LoneKin(world, kin, ballsRef, BALL_CONFIGS, SPAWN_Y, gameMode) :
          /\ kin' = k2
          /\ gameOver' = SetGameOver(gameOver, CheckGameOver(world, k2))
    /\ event' = Event("update", "")
    /\ UNCHANGED <<score, nextBallLevel, canDrop, dropPosition, gameMode,
                   gameStarted, engineRef, world, ballsRef, nextId, timers,
                   pc, pairs, handled>>

NextLone ==
    \/ \E mode \in GameModes : StartGame(mode)
    \/ ResetGame
    \/ \E x \in PointerXs : HandleMouseMove(x)
    \/ DropFirstBall
    \/ \E i \in 1 .. Len(timers) : CooldownTimer(i)
    \/ LoneUpdate

SpecLone == Init /\ [][NextLone]_vars

----------------------------------------------------------------------------
(* The variant of src/unnamed/part_000: three tiers, no game modes and no  *)
(* mode-selection screen (the engine is created when the component         *)
(* mounts), with a ball alone in the field.  gameStarted is TRUE and       *)
(* gameMode is "normal" throughout: the material of createBall and the     *)
(* gravity of the engine are those of the normal mode.                     *)

\* radius of each tier
Part000_BALL_CONFIGS == <<20, 30, 45>>

\* ball.position.y < 100
Part000_CEILING_Y == 100

\* createBall(dropPosition, 50, nextBallLevel)
Part000_SPAWN_Y == 50

\* Math.floor(Math.random() * 2)
Part000_DROP_LEVELS == 2

Part000_RandomLevels == 0 .. (Part000_DROP_LEVELS - 1)

\* setTimeout(..., 500)
Part000_DropDelay == 500

\* Math.max(30, Math.min(770, x))
Part000_MIN_X == 30

Part000_MAX_X == 770

Part000_Clamp(x) == Max(Part000_MIN_X, Min(Part000_MAX_X, x))

\* pointer positions relative to the canvas, e.clientX - rect.left
Part000_PointerXs == {0, 800}

\* Matter.World.add(engine.world, [ground, leftWall, rightWall])
Part000_Boundary ==
    [i \in StaticIds |->
        IF i = GROUND THEN StaticBody(400, 590, 800, 20)
        ELSE IF i = LEFT_WALL THEN StaticBody(10, 300, 20, 600)
        ELSE StaticBody(790, 300, 20, 600)]

\* the condition of checkGameOver for one ball: no test of the velocity
Part000_Offends(k) == k.y < Part000_CEILING_Y

\* checkGameOver: its return value
Part000_CheckGameOver(w, k) == \E i \in GameBalls(w) : Part000_Offends(k[i])

\* the state after the effect of the mount has run
Part000_Init ==
    /\ score = 0
    /\ gameOver = FALSE
    /\ nextBallLevel = 0
    /\ canDrop = TRUE
    /\ dropPosition = INITIAL_DROP_POSITION
    /\ gameMode = "normal"
    /\ gameStarted = TRUE
    /\ engineRef = "engine"
    /\ world = Part000_Boundary
    /\ kin = EmptyMap
    /\ ballsRef = EmptyMap
    /\ nextId = Cardinality(StaticIds) + 1
    /\ timers = <<>>
    /\ pc = "idle"
    /\ pairs = {}
    /\ handled = <<>>
    /\ event = Event("mount", "")

\* resetGame: the engine stays, the timers of dropBall are not cleared
Part000_ResetGame ==
    /\ IF engineRef # "null"
       THEN /\ world' = WorldRemove(world, GameBalls(world))
            /\ kin' = WorldRemove(kin, GameBalls(world))
            /\ ballsRef' = MapClear(ballsRef)
       ELSE UNCHANGED <<world, kin, ballsRef>>
    /\ score' = 0
    /\ gameOver' = FALSE
    /\ canDrop' = TRUE
    /\ nextBallLevel' = 0
    /\ timers' = [j \in 1 .. Len(timers) |-> [timers[j] EXCEPT !.stale = TRUE]]
    /\ event' = Event("resetGame", "")
    /\ UNCHANGED <<dropPosition, gameMode, gameStarted, engineRef, nextId, pc,
                   pairs, handled>>

\* handleMouseMove
Part000_HandleMouseMove(x) ==
    /\ dropPosition' = Part000_Clamp(x)
    /\ event' = Event("mouseMove", "")
    /\ UNCHANGED <<score, gameOver, nextBallLevel, canDrop, gameMode,
                   gameStarted, engineRef, world, kin, ballsRef, nextId,
                   timers, pc, pairs, handled>>

\* dropBall, while the field is empty or turned down
Part000_DropBall ==
    /\ IF DropRejected(canDrop, gameOver, engineRef)
       THEN /\ event' = Event("dropBall", "Rejected")
            /\ UNCHANGED <<world, kin, ballsRef, nextId, canDrop, timers>>
       ELSE /\ GameBalls(world) = {}
            /\ nextId <= MaxId
            /\ world' = Put(world, nextId, CreateBall(nextBallLevel, gameMode))
            /\ kin' = Put(kin, nextId, Placed(dropPosition, Part000_SPAWN_Y))
            /\ ballsRef' = Put(ballsRef, nextId,
                               [body |-> nextId, level |-> nextBallLevel])
            /\ nextId' = nextId + 1
            /\ canDrop' = FALSE
            /\ timers' = Append(timers, [delay |-> Part000_DropDelay, stale |-> FALSE])
            /\ event' = Event("dropBall", "Dropped")
    /\ UNCHANGED <<score, gameOver, nextBallLevel, dropPosition, gameMode,
                   gameStarted, engineRef, pc, pairs, handled>>

\* the callback of the setTimeout of dropBall
Part000_CooldownTimer(i) ==
    /\ i \in 1 .. Len(timers)
    /\ canDrop' = TRUE
    /\ nextBallLevel' \in Part000_RandomLevels
    /\ timers' = RemoveAt(timers, i)
    /\ event' = Event("timeout", "")
    /\ UNCHANGED <<score, gameOver, dropPosition, gameMode, gameStarted,
                   engineRef, world, kin, ballsRef, nextId, pc, pairs, handled>>

\* one Engine.update with at most one ball in the world
Part000_LoneUpdate ==
    /\ Cardinality(GameBalls(world)) <= 1
    /\ \E k2 \in LoneKin(world, kin, ballsRef, Part000_BALL_CONFIGS,
                        Part000_SPAWN_Y, gameMode) :
          /\ kin' = k2
          /\ gameOver' = SetGameOver(gameOver, Part000_CheckGameOver(world, k2))
    /\ event' = Event("update", "")
    /\ UNCHANGED <<score, nextBallLevel, canDrop, dropPosition, gameMode,
                   gameStarted, engineRef, world, ballsRef, nextId, timers,
                   pc, pairs, handled>>

Part000_Next ==
    \/ Part000_ResetGame
    \/ \E x \in Part000_PointerXs : Part000_HandleMouseMove(x)
    \/ Part000_DropBall
    \/ \E i \in 1 .. Len(timers) : Part000_CooldownTimer(i)
    \/ Part000_LoneUpdate

SpecPart000 == Part000_Init /\ [][Part000_Next]_vars

----------------------------------------------------------------------------
(* Property of the first update after a drop *)

\* C16: in SuicaGame.tsx and in the variant of part_000 alike, a ball that
\* has just been dropped, at the spawn height and at rest, does not satisfy
\* the rule of checkGameOver in the update that follows, and a ball dropped
\* into an empty field never ends the game.
LoneBallNeverEndsGame ==
    Cardinality(GameBalls(world)) <= 1 => ~gameOver

----------------------------------------------------------------------------
(* Properties of the drop position, the session and the cooldown *)

\* the inner face of the left wall: Matter.Bodies.rectangle(10, 250, 20, 500)
LeftFace(w) == w[LEFT_WALL].x + w[LEFT_WALL].width \div 2

\* the inner face of the right wall: Matter.Bodies.rectangle(590, 250, 20, 500)
RightFace(w) == w[RIGHT_WALL].x - w[RIGHT_WALL].width \div 2

\* C17: the ball that a drop has just created lies, with its whole disc,
\* between the inner faces of the two walls: x - radius >= 20 and
\* x + radius <= 580, for every droppable tier and every pointer position.
SpawnedDiscBetweenWalls ==
    event = Event("dropBall", "Dropped") =>
        LET i == nextId - 1
            radius == BALL_CONFIGS[ballsRef[i].level + 1]
        IN  /\ LeftFace(world) = 20
            /\ RightFace(world) = 580
            /\ kin[i].x - radius >= LeftFace(world)
            /\ kin[i].x + radius <= RightFace(world)

\* C18: the session is one of ModeSelect, Playing, GameOver, and it changes
\* only from ModeSelect to Playing by startGame, from Playing to GameOver by
\* checkGameOver in the afterUpdate event, and from Playing or GameOver to
\* ModeSelect by resetGame; startGame runs only in ModeSelect.
SessionTransitions ==
    /\ [](Session \in {"ModeSelect", "Playing", "GameOver"})
    /\ [][ /\ Session' # Session =>
                \/ /\ Session = "ModeSelect" /\ Session' = "Playing"
                   /\ event'.name = "startGame"
                \/ /\ Session = "Playing" /\ Session' = "GameOver"
                   /\ pc = "afterUpdate" /\ pc' = "idle"
                \/ /\ Session \in {"Playing", "GameOver"}
                   /\ Session' = "ModeSelect"
                   /\ event'.name = "resetGame"
           /\ (event' # event /\ event'.name = "startGame") =>
                (Session = "ModeSelect" /\ Session' = "Playing")
           /\ (event' # event /\ event'.name = "resetGame") =>
                (Session # "ModeSelect" /\ Session' = "ModeSelect")
         ]_vars

\* after a session in which a ball was dropped, resetGame has led back to
\* the mode selection, where the cooldown timer of the drop has fired
TimerFiredInModeSelect ==
    /\ Session = "ModeSelect"
    /\ event.name = "timeout"
    /\ nextId > Cardinality(StaticIds) + 1

\* C19: the cooldown of a drop in moon mode is shorter than the cooldown of
\* a drop in normal mode.
MoonCooldownShorter ==
    \A i \in 1 .. Len(timers) :
        (gameMode = "moon" /\ ~timers[i].stale)
            => timers[i].delay < DropDelay("normal")

\* C20: while the game is over, no collision and no update changes the score
\* or the registry: the score of the overlay is the score at the moment the
\* game was found over.
GameOverFreezesResult ==
    [][ (gameOver /\ gameOver') => UNCHANGED <<score, ballsRef>> ]_vars

====
